---------------------------- MODULE Spec2Model ----------------------------
(***************************************************************************)
(* Receipt processor: the validation of a submitted receipt, the seven     *)
(* point rules, and the two request handlers over the in-memory stores.    *)
(* Two variants of the service live in the repository:                     *)
(*    "FetchApp"       src/FetchApp/receipt_service.py (the tested one)    *)
(*    "fetch_service"  src/fetch_service.py                                *)
(* The variable `variant` says which application is running.               *)
(*                                                                         *)
(* Strings are sequences of one-character strings, so that patterns,       *)
(* strip(), len() and the parsers are computed character by character.     *)
(* Python ints and Decimal coefficients are arbitrary-precision: they are  *)
(* sequences of decimal digits, most significant first.                    *)
(***************************************************************************)
EXTENDS Integers, Sequences, FiniteSets, TLC

(***************************************************************************)
(* Characters and string helpers                                           *)
(***************************************************************************)
DigitChars == {"0", "1", "2", "3", "4", "5", "6", "7", "8", "9"}

DigitVal(c) ==
    CASE c = "0" -> 0 [] c = "1" -> 1 [] c = "2" -> 2 [] c = "3" -> 3
      [] c = "4" -> 4 [] c = "5" -> 5 [] c = "6" -> 6 [] c = "7" -> 7
      [] c = "8" -> 8 [] c = "9" -> 9

LowerLetters == <<"a", "b", "c", "d", "e", "f", "g", "h", "i", "j", "k", "l", "m", "n", "o", "p", "q", "r", "s", "t", "u", "v", "w", "x", "y", "z">>
UpperLetters == <<"A", "B", "C", "D", "E", "F", "G", "H", "I", "J", "K", "L", "M", "N", "O", "P", "Q", "R", "S", "T", "U", "V", "W", "X", "Y", "Z">>
Letters == {LowerLetters[i] : i \in 1..26} \cup {UpperLetters[i] : i \in 1..26}

\* str.lower() of one character
Lower(c) ==
    IF \E i \in 1..26 : UpperLetters[i] = c
    THEN LowerLetters[CHOOSE i \in 1..26 : UpperLetters[i] = c]
    ELSE c

LowerStr(s) == [i \in 1..Len(s) |-> Lower(s[i])]

\* regex \s, restricted to the whitespace characters the inputs use
IsSpace(c) == c \in {" ", "\t", "\n"}
\* regex \w: letters, digits, underscore
IsWord(c) == c \in Letters \cup DigitChars \cup {"_"}
\* str.isalnum() of one character
isalnum(c) == c \in Letters \cup DigitChars

SetMin(S) == CHOOSE x \in S : \A y \in S : x <= y
SetMax(S) == CHOOSE x \in S : \A y \in S : x >= y

\* str.strip(chars): drop the leading and trailing characters that are in cs
strip(s, cs) ==
    LET keep == {i \in 1..Len(s) : s[i] \notin cs}
    IN  IF keep = {} THEN <<>> ELSE SubSeq(s, SetMin(keep), SetMax(keep))

\* str.strip(): drop leading and trailing whitespace
strip_ws(s) ==
    LET keep == {i \in 1..Len(s) : ~IsSpace(s[i])}
    IN  IF keep = {} THEN <<>> ELSE SubSeq(s, SetMin(keep), SetMax(keep))

AllDigits(s) == \A i \in 1..Len(s) : s[i] \in DigitChars

(***************************************************************************)
(* Arbitrary-precision naturals (Python int, Decimal coefficient):         *)
(* sequences of digits 0..9, most significant first, <<0>> for zero.       *)
(***************************************************************************)
Reverse(s) == [i \in 1..Len(s) |-> s[Len(s) + 1 - i]]

RECURSIVE StripZeros(_)
StripZeros(d) ==
    IF Len(d) > 1 /\ d[1] = 0 THEN StripZeros(Tail(d))
    ELSE IF d = <<>> THEN <<0>> ELSE d

RECURSIVE AddLE(_, _, _)
\* least significant digit first, with carry c
AddLE(a, b, c) ==
    IF a = <<>> /\ b = <<>>
    THEN IF c = 0 THEN <<>> ELSE <<c>>
    ELSE LET x == IF a = <<>> THEN 0 ELSE Head(a)
             y == IF b = <<>> THEN 0 ELSE Head(b)
             s == x + y + c
         IN  <<s % 10>> \o AddLE(IF a = <<>> THEN a ELSE Tail(a),
                                 IF b = <<>> THEN b ELSE Tail(b),
                                 s \div 10)

BigAdd(a, b) == StripZeros(Reverse(AddLE(Reverse(a), Reverse(b), 0)))

RECURSIVE BigOfNat(_)
BigOfNat(n) == IF n < 10 THEN <<n>> ELSE BigOfNat(n \div 10) \o <<n % 10>>

Zeros(n) == [i \in 1..n |-> 0]
IsZeroDigits(d) == \A i \in 1..Len(d) : d[i] = 0
DigitsOf(s) == [i \in 1..Len(s) |-> DigitVal(s[i])]

RECURSIVE BigMulSmall(_, _)
BigMulSmall(a, n) == IF n = 0 THEN <<0>> ELSE BigAdd(a, BigMulSmall(a, n - 1))

RECURSIVE BigMul(_, _)
BigMul(a, b) ==
    IF Len(b) = 1 THEN BigMulSmall(a, b[1])
    ELSE BigAdd(StripZeros(BigMul(a, SubSeq(b, 1, Len(b) - 1)) \o <<0>>),
                BigMulSmall(a, b[Len(b)]))

RECURSIVE NatOfDigits(_)
NatOfDigits(d) ==
    IF d = <<>> THEN 0 ELSE 10 * NatOfDigits(SubSeq(d, 1, Len(d) - 1)) + d[Len(d)]

(***************************************************************************)
(* decimal.Decimal under the default context: precision 28 significant     *)
(* digits, ROUND_HALF_EVEN, InvalidOperation trapped.                      *)
(* A value is [kind, sign, int, exp]: kind "finite" (value                 *)
(* (-1)^sign * int * 10^exp), "inf", "nan", or the raised                  *)
(* "InvalidOperation".                                                     *)
(***************************************************************************)
Prec == 28

DecFinite(sign, int, exp) == [kind |-> "finite", sign |-> sign, int |-> int, exp |-> exp]
DecSpecial(kind, sign) == [kind |-> kind, sign |-> sign, int |-> <<0>>, exp |-> 0]
DecRaised == DecSpecial("InvalidOperation", 0)

\* The numeric part of the constructor's grammar:
\* digits [. digits] | . digits, then an optional exponent e[+-]digits.
DecimalNumber(sign, low) ==
    LET es    == {i \in 1..Len(low) : low[i] = "e"}
        mant  == IF es = {} THEN low ELSE SubSeq(low, 1, SetMin(es) - 1)
        etxt  == IF es = {} THEN <<>> ELSE SubSeq(low, SetMin(es) + 1, Len(low))
        esign == etxt # <<>> /\ etxt[1] \in {"+", "-"}
        edigs == IF esign THEN Tail(etxt) ELSE etxt
        eok   == es = {} \/ (edigs # <<>> /\ AllDigits(edigs))
        eval  == IF es = {} \/ ~eok THEN 0
                 ELSE IF etxt[1] = "-" THEN 0 - NatOfDigits(DigitsOf(edigs))
                 ELSE NatOfDigits(DigitsOf(edigs))
        dots  == {i \in 1..Len(mant) : mant[i] = "."}
        ipart == IF dots = {} THEN mant ELSE SubSeq(mant, 1, SetMin(dots) - 1)
        fpart == IF dots = {} THEN <<>> ELSE SubSeq(mant, SetMin(dots) + 1, Len(mant))
        mok   == /\ Cardinality(dots) <= 1
                 /\ AllDigits(ipart) /\ AllDigits(fpart)
                 /\ Len(ipart) + Len(fpart) >= 1
    IN  IF mok /\ eok
        THEN DecFinite(sign, StripZeros(DigitsOf(ipart \o fpart)), eval - Len(fpart))
        ELSE DecRaised

\* Decimal(s): surrounding whitespace and underscores are dropped, then
\* [sign] number | [sign] Inf[inity] | [sign] [s]NaN, case-insensitive.
Decimal(s) ==
    LET t    == SelectSeq(strip_ws(s), LAMBDA c : c # "_")
        sign == IF t # <<>> /\ t[1] = "-" THEN 1 ELSE 0
        body == IF t # <<>> /\ t[1] \in {"+", "-"} THEN Tail(t) ELSE t
        low  == LowerStr(body)
    IN  IF low \in {<<"i", "n", "f">>, <<"i", "n", "f", "i", "n", "i", "t", "y">>} THEN DecSpecial("inf", sign)
        ELSE IF low \in {<<"n", "a", "n">>, <<"s", "n", "a", "n">>} THEN DecSpecial("nan", sign)
        ELSE DecimalNumber(sign, low)

DecIsZero(d) == d.kind = "finite" /\ IsZeroDigits(d.int)

\* Context rounding of a finite result to Prec significant digits, half-even.
Fix(d) ==
    IF Len(d.int) <= Prec THEN d
    ELSE LET k     == Len(d.int) - Prec
             kept  == SubSeq(d.int, 1, Prec)
             rest  == SubSeq(d.int, Prec + 1, Len(d.int))
             tail0 == IsZeroDigits(Tail(rest))
             up    == \/ rest[1] > 5
                      \/ rest[1] = 5 /\ ~tail0
                      \/ rest[1] = 5 /\ tail0 /\ kept[Prec] % 2 = 1
             r     == IF up THEN BigAdd(kept, <<1>>) ELSE kept
         IN  IF Len(r) > Prec
             THEN DecFinite(d.sign, SubSeq(r, 1, Prec), d.exp + k + 1)
             ELSE DecFinite(d.sign, r, d.exp + k)

\* The coefficient of d at exponent e <= d.exp
Scaled(d, e) == StripZeros(d.int \o Zeros(d.exp - e))

\* a + b for non-negative operands (the sums of validated prices)
DecAdd(a, b) ==
    IF a.kind = "inf" \/ b.kind = "inf" THEN DecSpecial("inf", 0)
    ELSE LET e == IF a.exp < b.exp THEN a.exp ELSE b.exp
         IN  Fix(DecFinite(0, BigAdd(Scaled(a, e), Scaled(b, e)), e))

\* a * b for non-negative operands
DecMul(a, b) ==
    IF a.kind = "inf" \/ b.kind = "inf" THEN DecSpecial("inf", 0)
    ELSE Fix(DecFinite(0, BigMul(a.int, b.int), a.exp + b.exp))

\* a == b: a NaN equals nothing, zeros are equal whatever their sign
DecEq(a, b) ==
    IF a.kind = "nan" \/ b.kind = "nan" THEN FALSE
    ELSE IF a.kind = "inf" \/ b.kind = "inf"
         THEN a.kind = b.kind /\ a.sign = b.sign
    ELSE IF DecIsZero(a) \/ DecIsZero(b) THEN DecIsZero(a) /\ DecIsZero(b)
    ELSE LET e == IF a.exp < b.exp THEN a.exp ELSE b.exp
         IN  a.sign = b.sign /\ Scaled(a, e) = Scaled(b, e)

\* a < 0; an ordering comparison with a NaN raises InvalidOperation
DecLtZero(a) ==
    [raised |-> a.kind = "nan",
     value  |-> a.kind # "nan" /\ a.sign = 1 /\ ~DecIsZero(a)]

\* d % (1/k) == 0 for a finite d and k in {1, 4} (the divisors 1 and 0.25):
\* with y = |d| * k the quotient is floor(y); the operation raises
\* InvalidOperation (DivisionImpossible) when the quotient has more than
\* Prec digits, as it does for an infinite d; the remainder is zero
\* when y is an integer.
DecModIsZero(d, k) ==
    IF d.kind # "finite" THEN [raised |-> TRUE, value |-> FALSE]
    ELSE LET y       == BigMulSmall(d.int, k)
             qdigits == IF IsZeroDigits(y) \/ Len(y) + d.exp <= 0 THEN 0
                        ELSE Len(y) + d.exp
             nfrac   == IF d.exp >= 0 THEN 0
                        ELSE IF 0 - d.exp > Len(y) THEN Len(y) ELSE 0 - d.exp
             frac    == SubSeq(y, Len(y) - nfrac + 1, Len(y))
         IN  [raised |-> qdigits > Prec,
              value  |-> qdigits <= Prec /\ IsZeroDigits(frac)]

\* DecCeil rounding down (math.floor) instead of up
DecFloor(d) ==
    IF d.kind # "finite" THEN [raised |-> TRUE, value |-> <<0>>]
    ELSE IF d.exp >= 0
         THEN [raised |-> FALSE, value |-> StripZeros(d.int \o Zeros(d.exp))]
    ELSE LET n == Len(d.int) + d.exp
         IN  [raised |-> FALSE,
              value  |-> IF n <= 0 THEN <<0>> ELSE SubSeq(d.int, 1, n)]

\* math.ceil(d) for a non-negative d: a Python int; OverflowError for Infinity
DecCeil(d) ==
    IF d.kind # "finite" THEN [raised |-> TRUE, value |-> <<0>>]
    ELSE IF d.exp >= 0
         THEN [raised |-> FALSE, value |-> StripZeros(d.int \o Zeros(d.exp))]
    ELSE LET n     == Len(d.int) + d.exp
             whole == IF n <= 0 THEN <<0>> ELSE SubSeq(d.int, 1, n)
             frac  == IF n <= 0 THEN d.int ELSE SubSeq(d.int, n + 1, Len(d.int))
         IN  [raised |-> FALSE,
              value  |-> IF IsZeroDigits(frac) THEN whole ELSE BigAdd(whole, <<1>>)]

(***************************************************************************)
(* Dates and times                                                         *)
(***************************************************************************)
IsLeap(y) == (y % 4 = 0 /\ y % 100 # 0) \/ y % 400 = 0

DaysInMonth(y, m) ==
    IF m = 2 THEN (IF IsLeap(y) THEN 29 ELSE 28)
    ELSE IF m \in {4, 6, 9, 11} THEN 30 ELSE 31

ValidDate(y, m, d) == y >= 1 /\ m \in 1..12 /\ d \in 1..DaysInMonth(y, m)

NoDate == [ok |-> FALSE, year |-> 0, month |-> 0, day |-> 0]
NoTime == [ok |-> FALSE, hour |-> 0, minute |-> 0, second |-> 0, aware |-> FALSE]

NumOf(s) == NatOfDigits(DigitsOf(s))

\* One or two digits
Digits12(s) == Len(s) \in {1, 2} /\ AllDigits(s)

\* The pieces of s between the occurrences of the character c
SplitAt(s, c) ==
    LET cuts == {i \in 1..Len(s) : s[i] = c}
        n    == Cardinality(cuts)
        pos[k \in 0..(n + 1)] ==
            IF k = 0 THEN 0
            ELSE IF k = n + 1 THEN Len(s) + 1
            ELSE SetMin({i \in cuts : i > pos[k - 1]})
    IN  [k \in 1..(n + 1) |-> SubSeq(s, pos[k - 1] + 1, pos[k] - 1)]

\* pydantic's date from a JSON string of the form YYYY-MM-DD: a real
\* calendar date (the requests carry no other form of date)
date_of_string(s) ==
    IF /\ Len(s) = 10
       /\ s[5] = "-" /\ s[8] = "-"
       /\ AllDigits(SubSeq(s, 1, 4)) /\ AllDigits(SubSeq(s, 6, 7))
       /\ AllDigits(SubSeq(s, 9, 10))
       /\ ValidDate(NumOf(SubSeq(s, 1, 4)), NumOf(SubSeq(s, 6, 7)),
                    NumOf(SubSeq(s, 9, 10)))
    THEN [ok |-> TRUE, year |-> NumOf(SubSeq(s, 1, 4)),
          month |-> NumOf(SubSeq(s, 6, 7)), day |-> NumOf(SubSeq(s, 9, 10))]
    ELSE NoDate

\* A UTC offset of a time string: Z, or +HH:MM / -HH:MM
IsOffset(s) ==
    \/ s \in {<<"Z">>, <<"z">>}
    \/ /\ Len(s) = 6 /\ s[1] \in {"+", "-"} /\ s[4] = ":"
       /\ AllDigits(SubSeq(s, 2, 3)) /\ AllDigits(SubSeq(s, 5, 6))
       /\ NumOf(SubSeq(s, 2, 3)) <= 23 /\ NumOf(SubSeq(s, 5, 6)) <= 59

\* pydantic's time from a JSON string: HH:MM[:SS][Z or +HH:MM or -HH:MM];
\* a string with an offset gives an offset-aware time (the requests carry
\* no fractional seconds)
time_of_string(s) ==
    LET hm   == /\ Len(s) >= 5 /\ s[3] = ":"
                /\ AllDigits(SubSeq(s, 1, 2)) /\ AllDigits(SubSeq(s, 4, 5))
        secs == hm /\ Len(s) >= 8 /\ s[6] = ":" /\ AllDigits(SubSeq(s, 7, 8))
        rest == IF secs THEN SubSeq(s, 9, Len(s)) ELSE SubSeq(s, 6, Len(s))
        h    == NumOf(SubSeq(s, 1, 2))
        m    == NumOf(SubSeq(s, 4, 5))
        sec  == IF secs THEN NumOf(SubSeq(s, 7, 8)) ELSE 0
    IN  IF hm /\ (rest = <<>> \/ IsOffset(rest)) /\ h <= 23 /\ m <= 59 /\ sec <= 59
        THEN [ok |-> TRUE, hour |-> h, minute |-> m, second |-> sec,
              aware |-> rest # <<>>]
        ELSE NoTime

\* datetime.strptime(s, "%Y-%m-%d"): four-digit year, month and day of one
\* or two digits (a day may also be a space and a digit), a real date
strptime_date(s) ==
    LET p  == SplitAt(s, "-")
        dd == IF Len(p) = 3 /\ Len(p[3]) = 2 /\ p[3][1] = " "
              THEN Tail(p[3]) ELSE IF Len(p) = 3 THEN p[3] ELSE <<>>
    IN  IF /\ Len(p) = 3
           /\ Len(p[1]) = 4 /\ AllDigits(p[1])
           /\ Digits12(p[2]) /\ Digits12(dd)
           /\ (p[3] # dd => NumOf(dd) # 0)
           /\ ValidDate(NumOf(p[1]), NumOf(p[2]), NumOf(dd))
        THEN [ok |-> TRUE, year |-> NumOf(p[1]), month |-> NumOf(p[2]),
              day |-> NumOf(dd)]
        ELSE NoDate

\* datetime.strptime(s, "%H:%M").time(): hour and minute of one or two digits
strptime_time(s) ==
    LET p == SplitAt(s, ":")
    IN  IF /\ Len(p) = 2 /\ Digits12(p[1]) /\ Digits12(p[2])
           /\ NumOf(p[1]) <= 23 /\ NumOf(p[2]) <= 59
        THEN [ok |-> TRUE, hour |-> NumOf(p[1]), minute |-> NumOf(p[2]),
              second |-> 0, aware |-> FALSE]
        ELSE NoTime

(***************************************************************************)
(* Validation of a submitted receipt                                       *)
(* A receipt is [retailer, purchaseDate, purchaseTime, items, total], all  *)
(* strings, items a sequence of [shortDescription, price].                 *)
(***************************************************************************)

\* shortDescription_pattern with * in place of +: the empty string matches
shortDescription_pattern_star(s) ==
    \A i \in 1..Len(s) : IsWord(s[i]) \/ IsSpace(s[i]) \/ s[i] = "-"

\* pattern ^[\w\s\-]+$
shortDescription_pattern(s) ==
    Len(s) >= 1 /\ \A i \in 1..Len(s) : IsWord(s[i]) \/ IsSpace(s[i]) \/ s[i] = "-"

\* pattern ^[\w\s\-&]+$
retailer_pattern(s) ==
    Len(s) >= 1 /\
    \A i \in 1..Len(s) : IsWord(s[i]) \/ IsSpace(s[i]) \/ s[i] \in {"-", "&"}

\* pattern ^\d+\.\d{2}$
price_pattern(s) ==
    /\ Len(s) >= 4
    /\ s[Len(s) - 2] = "."
    /\ AllDigits(SubSeq(s, 1, Len(s) - 3))
    /\ AllDigits(SubSeq(s, Len(s) - 1, Len(s)))

RECURSIVE SumFrom(_, _, _)
\* sum(Decimal(item.price) for item in items): the running sum starts at 0
SumFrom(items, i, acc) ==
    IF i > Len(items) THEN acc
    ELSE SumFrom(items, i + 1, DecAdd(acc, Decimal(items[i].price)))

sum_of_prices(items) == SumFrom(items, 1, Decimal(<<"0">>))

\* FetchApp: Receipt.validate_total_matches_items (runs after the fields)
validate_total_matches_items(r) == DecEq(sum_of_prices(r.items), Decimal(r.total))

\* FetchApp: Item
ItemFetchApp(it) == shortDescription_pattern(it.shortDescription) /\ price_pattern(it.price)

\* FetchApp: Receipt(**json) succeeds
ReceiptFetchApp(r) ==
    /\ retailer_pattern(r.retailer)
    /\ date_of_string(r.purchaseDate).ok
    /\ time_of_string(r.purchaseTime).ok
    /\ Len(r.items) >= 1
    /\ \A i \in 1..Len(r.items) : ItemFetchApp(r.items[i])
    /\ price_pattern(r.total)
    /\ validate_total_matches_items(r)

\* fetch_service: Item.validate_price
validate_price(p) ==
    /\ Decimal(p).kind # "InvalidOperation"
    /\ ~DecLtZero(Decimal(p)).raised
    /\ ~DecLtZero(Decimal(p)).value

\* fetch_service: Receipt.validate_date / validate_time
validate_date(s) == strptime_date(s).ok
validate_time(s) == strptime_time(s).ok

\* fetch_service: Receipt.validate_total, given validated items
validate_total(t, items) ==
    /\ Decimal(t).kind # "InvalidOperation"
    /\ DecEq(Decimal(t), sum_of_prices(items))

\* fetch_service: Receipt(**json) succeeds
ReceiptFetchService(r) ==
    /\ validate_date(r.purchaseDate)
    /\ validate_time(r.purchaseTime)
    /\ Len(r.items) >= 1
    /\ \A i \in 1..Len(r.items) : validate_price(r.items[i].price)
    /\ validate_total(r.total, r.items)

Variants == {"FetchApp", "fetch_service"}

\* The request body passes validation (otherwise the response is 422)
Valid(v, r) == IF v = "FetchApp" THEN ReceiptFetchApp(r) ELSE ReceiptFetchService(r)

(***************************************************************************)
(* calculate_points: the seven rules.  A rule's contribution is            *)
(* [raised, value]: value a Python int, raised when the rule's code        *)
(* raises an exception instead of returning.                               *)
(***************************************************************************)
AFTERNOON_START == [hour |-> 14, minute |-> 0, second |-> 0]
AFTERNOON_END == [hour |-> 16, minute |-> 0, second |-> 0]
PRICE_MULTIPLIER == Decimal(<<"0", ".", "2">>)

Contribution(n) == [raised |-> FALSE, value |-> BigOfNat(n)]
Raises == [raised |-> TRUE, value |-> <<0>>]

\* receipt.purchaseDate as a date, receipt.purchaseTime as a time
purchase_date(v, r) ==
    IF v = "FetchApp" THEN date_of_string(r.purchaseDate) ELSE strptime_date(r.purchaseDate)
purchase_time(v, r) ==
    IF v = "FetchApp" THEN time_of_string(r.purchaseTime) ELSE strptime_time(r.purchaseTime)

\* a <= b on naive times
TimeLe(a, b) ==
    \/ a.hour < b.hour
    \/ a.hour = b.hour /\ a.minute < b.minute
    \/ a.hour = b.hour /\ a.minute = b.minute /\ a.second <= b.second
TimeLt(a, b) == ~TimeLe(b, a)

\* Rule 1: one point for every alphanumeric character in the retailer name
Rule1(r) ==
    Contribution(Cardinality({i \in 1..Len(r.retailer) : isalnum(r.retailer[i])}))

\* Rule 2: 50 points if total % 1 == 0
Rule2(r) ==
    LET m == DecModIsZero(Decimal(r.total), 1)
    IN  IF m.raised THEN Raises ELSE Contribution(IF m.value THEN 50 ELSE 0)

\* Rule 3: 25 points if total % Decimal("0.25") == 0
Rule3(r) ==
    LET m == DecModIsZero(Decimal(r.total), 4)
    IN  IF m.raised THEN Raises ELSE Contribution(IF m.value THEN 25 ELSE 0)

\* Rule 4: 5 points for every two items
Rule4(r) == Contribution((Len(r.items) \div 2) * 5)

\* trimmed_length without the strip()
untrimmed_length(it) == Len(it.shortDescription)

\* len(item.shortDescription.strip())
trimmed_length(it) == Len(strip_ws(it.shortDescription))

\* Rule 5, one item: ceil(price * 0.2) if the trimmed length is a multiple of 3
Rule5Item(it) ==
    IF trimmed_length(it) % 3 = 0
    THEN DecCeil(DecMul(Decimal(it.price), PRICE_MULTIPLIER))
    ELSE Contribution(0)

\* The sum of a sequence of contributions; raised when any of them is
RECURSIVE Total(_)
Total(cs) ==
    IF cs = <<>> THEN Contribution(0)
    ELSE LET t == Total(Tail(cs))
         IN  [raised |-> cs[1].raised \/ t.raised,
              value  |-> BigAdd(cs[1].value, t.value)]

Rule5(r) == Total([i \in 1..Len(r.items) |-> Rule5Item(r.items[i])])

\* Rule 6: 6 points if the day of the purchase date is odd
Rule6(v, r) == Contribution(IF purchase_date(v, r).day % 2 # 0 THEN 6 ELSE 0)

\* Rule 7: 10 points if AFTERNOON_START <= purchaseTime < AFTERNOON_END;
\* comparing the naive bounds with an offset-aware time raises TypeError
Rule7(v, r) ==
    LET t == purchase_time(v, r)
    IN  IF t.aware THEN Raises
        ELSE Contribution(IF TimeLe(AFTERNOON_START, t) /\ TimeLt(t, AFTERNOON_END)
                          THEN 10 ELSE 0)

\* calculate_points(receipt) of a validated receipt: [raised, value]
calculate_points(v, r) ==
    Total(<<Rule1(r), Rule2(r), Rule3(r), Rule4(r), Rule5(r), Rule6(v, r), Rule7(v, r)>>)

(***************************************************************************)
(* Requests: the receipts and the identifiers the clients send             *)
(***************************************************************************)
Item(d, p) == [shortDescription |-> d, price |-> p]

\* mock_valid_receipt of the tests
mock_valid_receipt ==
    [retailer     |-> <<"T", "a", "r", "g", "e", "t">>,
     purchaseDate |-> <<"2", "0", "2", "2", "-", "0", "1", "-", "0", "1">>,
     purchaseTime |-> <<"1", "3", ":", "0", "1">>,
     items        |-> << Item(<<"M", "o", "u", "n", "t", "a", "i", "n", " ", "D", "e", "w", " ", "1", "2", "P", "K">>, <<"6", ".", "4", "9">>),
                         Item(<<"E", "m", "i", "l", "s", " ", "C", "h", "e", "e", "s", "e", " ", "P", "i", "z", "z", "a">>, <<"1", "2", ".", "2", "5">>),
                         Item(<<"K", "n", "o", "r", "r", " ", "C", "r", "e", "a", "m", "y", " ", "C", "h", "i", "c", "k", "e", "n">>, <<"1", ".", "2", "6">>),
                         Item(<<"D", "o", "r", "i", "t", "o", "s", " ", "N", "a", "c", "h", "o", " ", "C", "h", "e", "e", "s", "e">>, <<"3", ".", "3", "5">>),
                         Item(<<" ", " ", " ", "K", "l", "a", "r", "b", "r", "u", "n", "n", " ", "1", "2", "-", "P", "K", " ", "1", "2", " ", "F", "L", " ", "O", "Z", " ", " ">>, <<"1", "2", ".", "0", "0">>) >>,
     total        |-> <<"3", "5", ".", "3", "5">>]

\* The mock receipt with its first item replaced
WithFirstItem(it) ==
    [mock_valid_receipt EXCEPT !.items = <<it>> \o Tail(mock_valid_receipt.items)]

\* A receipt of one item
OneItem(d, p, t) == [mock_valid_receipt EXCEPT !.items = <<Item(d, p)>>, !.total = t]

\* The invalid receipts of the tests
TestReceipts ==
    { [mock_valid_receipt EXCEPT !.retailer = <<>>],
      [mock_valid_receipt EXCEPT !.retailer = <<"T", "a", "r", "g", "e", "t", "@", "1", "2", "3">>],
      [mock_valid_receipt EXCEPT !.purchaseDate = <<>>],
      [mock_valid_receipt EXCEPT !.purchaseDate = <<"2", "0", "2", "2", "-", "3", "1", "-", "1", "2">>],
      [mock_valid_receipt EXCEPT !.purchaseTime = <<>>],
      [mock_valid_receipt EXCEPT !.purchaseTime = <<"2", "5", ":", "0", "1">>],
      [mock_valid_receipt EXCEPT !.items = <<>>],
      WithFirstItem(Item(<<>>, <<"6", ".", "4", "9">>)),
      WithFirstItem(Item(<<"M", "o", "u", "n", "t", "a", "i", "n", " ", "D", "e", "w", " ", "1", "2", "P", "K">>, <<>>)),
      WithFirstItem(Item(<<"M", "o", "u", "n", "t", "a", "i", "n", " ", "D", "e", "w", " ", "1", "2", "P", "K">>, <<"-", "1", ".", "2", "0">>)),
      WithFirstItem(Item(<<"M", "o", "u", "n", "t", "a", "i", "n", " ", "D", "e", "w", " ", "1", "2", "P", "K">>, <<"r", "a", "n", "d", "o", "m", "S", "t", "r", "i", "n", "g">>)),
      [mock_valid_receipt EXCEPT !.total = <<>>],
      [mock_valid_receipt EXCEPT !.total = <<"-", "5", ".", "0", "0">>],
      [mock_valid_receipt EXCEPT !.total = <<"r", "a", "n", "d", "o", "m", "S", "t", "r", "i", "n", "g">>] }

\* Other purchase times, dates and retailers on the mock receipt
TimeStrings ==
    { <<"1", "4", ":", "0", "0">>, <<"1", "3", ":", "5", "9">>, <<"1", "6", ":", "0", "0">>, <<"1", "5", ":", "5", "9">>, <<"0", "0", ":", "0", "0">>, <<"2", "3", ":", "5", "9">>, <<"2", "4", ":", "0", "0">>,
      <<"1", "3", ":", "6", "0">>, <<"9", ":", "0", "5">>, <<"1", "3", "0", "1">>, <<"1", "3", ":", "0", "1", ":", "3", "0">>, <<"1", "5", ":", "5", "9", ":", "5", "9">>, <<"1", "4", ":", "3", "0", "Z">>,
      <<"1", "4", ":", "3", "0", "+", "0", "2", ":", "0", "0">>, <<"1", "3", ":", "0", "1", "Z">> }
DateStrings ==
    { <<"2", "0", "2", "2", "-", "0", "1", "-", "0", "2">>, <<"2", "0", "2", "2", "-", "0", "2", "-", "2", "9">>, <<"2", "0", "2", "4", "-", "0", "2", "-", "2", "9">>, <<"2", "0", "2", "2", "-", "1", "-", "1">>, <<"2", "0", "2", "2", "0", "1", "0", "1">>,
      <<"2", "0", "2", "2", "-", "0", "4", "-", "3", "1">>, <<"2", "0", "2", "2", "-", "1", "2", "-", "3", "1">> }
RetailerStrings == { <<"M", "&", "M", " ", "C", "o", "r", "n", "e", "r", " ", "M", "a", "r", "k", "e", "t">>, <<"W", "a", "l", "-", "M", "a", "r", "t", "_", "2", "4">>, <<" ">>, <<"T", "a", "r", "g", "e", "t", "!">> }

\* Totals and prices: exact matches, near misses, round amounts, long
\* numbers at the edge of the Decimal precision, non-finite values
SumReceipts ==
    { [mock_valid_receipt EXCEPT !.total = <<"3", "5", ".", "3", "6">>],
      [mock_valid_receipt EXCEPT !.total = <<"3", "5", ".", "3", "4">>],
      [mock_valid_receipt EXCEPT !.total = <<"3", "5", ".", "3", "5", "0">>],
      [mock_valid_receipt EXCEPT !.total = <<"3", "5", ".", "3">>],
      OneItem(<<"G", "a", "t", "o", "r", "a", "d", "e">>, <<"9", ".", "0", "0">>, <<"9", ".", "0", "0">>),
      OneItem(<<"G", "a", "t", "o", "r", "a", "d", "e">>, <<"2", ".", "2", "5">>, <<"2", ".", "2", "5">>),
      OneItem(<<"G", "a", "t", "o", "r", "a", "d", "e">>, <<"2", ".", "2", "5">>, <<"2", ".", "2", "6">>),
      OneItem(<<"M", "o", "u", "n", "t", "a", "i", "n", " ", "D", "e", "w", " ", "1", "2", "P", "K">>, <<"6", ".", "4", "9">>, <<"6", ".", "4", "9">>),
      OneItem(<<"M", "o", "u", "n", "t", "a", "i", "n", " ", "D", "e", "w", " ", "1", "2", " ", "P", "K">>, <<"6", ".", "4", "9">>, <<"6", ".", "4", "9">>),
      OneItem(<<"P", "e", "p", "s", "i">>, <<"1", "0", "0", "0", "0", "0", "0", "0", "0", "0", "0", "0", "0", "0", "0", "0", "0", "0", "0", "0", "0", "0", "0", "0", "0", "0", "0", ".", "0", "1">>,
              <<"1", "0", "0", "0", "0", "0", "0", "0", "0", "0", "0", "0", "0", "0", "0", "0", "0", "0", "0", "0", "0", "0", "0", "0", "0", "0", "0", ".", "0", "0">>),
      OneItem(<<"P", "e", "p", "s", "i">>, <<"1", "0", "0", "0", "0", "0", "0", "0", "0", "0", "0", "0", "0", "0", "0", "0", "0", "0", "0", "0", "0", "0", "0", "0", "0", "0", "0", ".", "0", "1">>,
              <<"1", "0", "0", "0", "0", "0", "0", "0", "0", "0", "0", "0", "0", "0", "0", "0", "0", "0", "0", "0", "0", "0", "0", "0", "0", "0", "0", ".", "0", "1">>),
      OneItem(<<"P", "e", "p", "s", "i">>, <<"1", "0", "0", "0", "0", "0", "0", "0", "0", "0", "0", "0", "0", "0", "0", "0", "0", "0", "0", "0", "0", "0", "0", "0", "0", "0", "0", "0", "0", ".", "0", "0">>,
              <<"1", "0", "0", "0", "0", "0", "0", "0", "0", "0", "0", "0", "0", "0", "0", "0", "0", "0", "0", "0", "0", "0", "0", "0", "0", "0", "0", "0", "0", ".", "0", "0">>),
      OneItem(<<"P", "e", "p", "s", "i">>, <<"I", "n", "f", "i", "n", "i", "t", "y">>, <<"I", "n", "f", "i", "n", "i", "t", "y">>),
      OneItem(<<"P", "e", "p", "s", "i">>, <<"N", "a", "N">>, <<"N", "a", "N">>),
      OneItem(<<"P", "e", "p", "s", "i">>, <<"1", "e", "1">>, <<"1", "0", ".", "0", "0">>) }

\* Descriptions: empty after trimming, padded, with other punctuation
DescriptionReceipts ==
    { OneItem(<<" ", " ", " ">>, <<"6", ".", "4", "9">>, <<"6", ".", "4", "9">>),
      OneItem(<<" ">>, <<"0", ".", "0", "0">>, <<"0", ".", "0", "0">>),
      OneItem(<<" ", "a", "b", " ">>, <<"6", ".", "4", "9">>, <<"6", ".", "4", "9">>),
      OneItem(<<"D", "e", "w", "-", "1", "2", "_", "P", "K">>, <<"6", ".", "4", "9">>, <<"6", ".", "4", "9">>),
      OneItem(<<"D", "e", "w", "!">>, <<"6", ".", "4", "9">>, <<"6", ".", "4", "9">>),
      OneItem(<<>>, <<"6", ".", "4", "9">>, <<"6", ".", "4", "9">>) }

\* The second worked example: four items, a round total, an afternoon time
corner_market_receipt ==
    [retailer     |-> <<"M", "&", "M", " ", "C", "o", "r", "n", "e", "r", " ", "M", "a", "r", "k", "e", "t">>,
     purchaseDate |-> <<"2", "0", "2", "2", "-", "0", "3", "-", "2", "0">>,
     purchaseTime |-> <<"1", "4", ":", "3", "3">>,
     items        |-> << Item(<<"G", "a", "t", "o", "r", "a", "d", "e">>, <<"2", ".", "2", "5">>), Item(<<"G", "a", "t", "o", "r", "a", "d", "e">>, <<"2", ".", "2", "5">>),
                         Item(<<"G", "a", "t", "o", "r", "a", "d", "e">>, <<"2", ".", "2", "5">>), Item(<<"G", "a", "t", "o", "r", "a", "d", "e">>, <<"2", ".", "2", "5">>) >>,
     total        |-> <<"9", ".", "0", "0">>]

AllReceipts ==
    {mock_valid_receipt, corner_market_receipt}
    \cup TestReceipts \cup SumReceipts \cup DescriptionReceipts
    \cup {[mock_valid_receipt EXCEPT !.purchaseTime = t] : t \in TimeStrings}
    \cup {[mock_valid_receipt EXCEPT !.purchaseDate = d] : d \in DateStrings}
    \cup {[mock_valid_receipt EXCEPT !.retailer = n] : n \in RetailerStrings}

\* The receipts of the multi-request runs
StoreReceipts ==
    { mock_valid_receipt, corner_market_receipt,
      [mock_valid_receipt EXCEPT !.total = <<"3", "5", ".", "3", "6">>],
      [mock_valid_receipt EXCEPT !.purchaseTime = <<"1", "4", ":", "3", "0", "Z">>],
      OneItem(<<"P", "e", "p", "s", "i">>, <<"I", "n", "f", "i", "n", "i", "t", "y">>, <<"I", "n", "f", "i", "n", "i", "t", "y">>),
      OneItem(<<"P", "e", "p", "s", "i">>, <<"1", "0", "0", "0", "0", "0", "0", "0", "0", "0", "0", "0", "0", "0", "0", "0", "0", "0", "0", "0", "0", "0", "0", "0", "0", "0", "0", "0", "0", ".", "0", "0">>,
              <<"1", "0", "0", "0", "0", "0", "0", "0", "0", "0", "0", "0", "0", "0", "0", "0", "0", "0", "0", "0", "0", "0", "0", "0", "0", "0", "0", "0", "0", ".", "0", "0">>),
      [mock_valid_receipt EXCEPT !.retailer = <<>>] }

\* str(uuid4()): the identifiers the generator can return (no quote, no
\* whitespace); each is returned at most once
Ids == { <<"a", "1">>, <<"b", "2">>, <<"c", "3">> }

Quoted(s) == <<"\"">> \o s \o <<"\"">>

\* The identifiers of the GET requests
IdStrings ==
    Ids \cup {Quoted(i) : i \in Ids}
    \cup { <<"\"">> \o <<"a", "1">>, <<"b", "2">> \o <<"\"">>, Quoted(Quoted(<<"a", "1">>)),
           <<"n", "o", "n", "e", "x", "i", "s", "t", "e", "n", "t", "-", "i", "d">>, Quoted(<<"n", "o", "n", "e", "x", "i", "s", "t", "e", "n", "t", "-", "i", "d">>), <<"\"">>,
           <<"a", " ", "1">>, <<" ">> }

(***************************************************************************)
(* The service                                                             *)
(***************************************************************************)
VARIABLES
    variant,      \* which application is running
    receipts_db,  \* receipt id -> the receipt as submitted
    points_db,    \* receipt id -> points
    request,      \* the last request
    response      \* its response

vars == <<variant, receipts_db, points_db, request, response>>

MaxReceipts == 2   \* receipts kept by the multi-request runs
MaxSingle == 1     \* receipts kept by the single-request runs

Response(status, id, points, detail) ==
    [status |-> status, id |-> id, points |-> points, detail |-> detail]

NoRequest == [op |-> "none", receipt |-> <<>>, id |-> <<>>]

\* Validation and scoring of every receipt a client sends, computed once
ValidOf == [v \in Variants |-> [r \in AllReceipts |-> Valid(v, r)]]
PointsOf ==
    [v \in Variants |->
        [r \in AllReceipts |-> IF ValidOf[v][r] THEN calculate_points(v, r) ELSE Raises]]

\* not_found_detail with one message for both applications
not_found_detail_same(v) == "No receipt found for given id"

\* The detail of the not-found error
not_found_detail(v) ==
    IF v = "FetchApp" THEN "No receipt found for that id"
    ELSE "No receipt found for given id"

\* FetchApp: the pattern ^\S+$ of the id path parameter
id_pattern(s) == Len(s) >= 1 /\ \A i \in 1..Len(s) : ~IsSpace(s[i])

\* normalize_id dropping one quote at each end (id[1:-1]) instead of all
normalize_id_once(s) ==
    LET a == IF s # <<>> /\ s[1] = "\"" THEN Tail(s) ELSE s
    IN  IF a # <<>> /\ a[Len(a)] = "\"" THEN SubSeq(a, 1, Len(a) - 1) ELSE a

\* id.strip('"')
normalize_id(s) == strip(s, {"\""})

\* process_receipt with an identifier that may already be in use
process_receipt_reused_id(r) ==
    /\ request' = [op |-> "process_receipt", receipt |-> r, id |-> <<>>]
    /\ variant' = variant
    /\ IF ~ValidOf[variant][r]
       THEN /\ response' = Response(422, <<>>, <<0>>, "")
            /\ UNCHANGED <<receipts_db, points_db>>
       ELSE \E receipt_id \in Ids :
              /\ receipts_db' = (receipt_id :> r) @@ receipts_db
              /\ IF PointsOf[variant][r].raised
                 THEN /\ points_db' = points_db
                      /\ response' = Response(500, <<>>, <<0>>, "")
                 ELSE /\ points_db' = (receipt_id :> PointsOf[variant][r].value) @@ points_db
                      /\ response' = Response(200, receipt_id, <<0>>, "")

\* POST /receipts/process with body r
process_receipt(r) ==
    /\ request' = [op |-> "process_receipt", receipt |-> r, id |-> <<>>]
    /\ variant' = variant
    /\ IF ~ValidOf[variant][r]
       THEN /\ response' = Response(422, <<>>, <<0>>, "")
            /\ UNCHANGED <<receipts_db, points_db>>
       ELSE \E receipt_id \in Ids \ DOMAIN receipts_db :
              /\ receipts_db' = receipts_db @@ (receipt_id :> r)
              /\ IF PointsOf[variant][r].raised
                 THEN /\ points_db' = points_db
                      /\ response' = Response(500, <<>>, <<0>>, "")
                 ELSE /\ points_db' = points_db @@ (receipt_id :> PointsOf[variant][r].value)
                      /\ response' = Response(200, receipt_id, <<0>>, "")

\* The response of GET /receipts/{s}/points
points_response(v, s, db) ==
    IF v = "FetchApp" /\ ~id_pattern(s) THEN Response(422, <<>>, <<0>>, "")
    ELSE IF normalize_id(s) \notin DOMAIN db
         THEN Response(404, <<>>, <<0>>, not_found_detail(v))
         ELSE Response(200, <<>>, db[normalize_id(s)], "")

\* GET /receipts/{s}/points
get_points(s) ==
    /\ request' = [op |-> "get_points", receipt |-> <<>>, id |-> s]
    /\ response' = points_response(variant, s, points_db)
    /\ UNCHANGED <<variant, receipts_db, points_db>>

Init ==
    /\ variant \in Variants
    /\ receipts_db = <<>>
    /\ points_db = <<>>
    /\ request = NoRequest
    /\ response = Response(0, <<>>, <<0>>, "")

Process ==
    \E r \in StoreReceipts :
        Cardinality(DOMAIN receipts_db) < MaxReceipts /\ process_receipt(r)

GetPoints == \E s \in IdStrings : get_points(s)

Next == Process \/ GetPoints

Spec == Init /\ [][Next]_vars

\* Runs that keep at most MaxSingle receipts, over every receipt
ProcessAny ==
    \E r \in AllReceipts :
        Cardinality(DOMAIN receipts_db) < MaxSingle /\ process_receipt(r)

NextAny == ProcessAny \/ GetPoints

SpecAny == Init /\ [][NextAny]_vars

(***************************************************************************)
(* Properties                                                              *)
(***************************************************************************)
Range(f) == {f[x] : x \in DOMAIN f}

Processed == request.op = "process_receipt"
Asked == request.op = "get_points"

\* s without its leading and trailing double quotes, one at a time
RECURSIVE Unquoted(_)
Unquoted(s) ==
    IF s # <<>> /\ s[1] = "\"" THEN Unquoted(Tail(s))
    ELSE IF s # <<>> /\ s[Len(s)] = "\"" THEN Unquoted(SubSeq(s, 1, Len(s) - 1))
    ELSE s

\* An amount written as digits, a point and two digits, in cents
IsAmount(s) ==
    /\ Len(s) >= 4 /\ s[Len(s) - 2] = "."
    /\ \A i \in 1..Len(s) : i # Len(s) - 2 => s[i] \in DigitChars
Cents(s) == StripZeros(DigitsOf(SelectSeq(s, LAMBDA c : c # ".")))

RECURSIVE ExactCents(_)
\* The exact sum of the item prices, in cents
ExactCents(items) ==
    IF items = <<>> THEN <<0>>
    ELSE BigAdd(Cents(items[1].price), ExactCents(Tail(items)))

\* The total differs from the exact sum of the item prices
TotalDiffers(r) ==
    /\ Len(r.items) >= 1
    /\ IsAmount(r.total)
    /\ \A i \in 1..Len(r.items) : IsAmount(r.items[i].price)
    /\ ExactCents(r.items) # Cents(r.total)

\* C1: every reachable state has the same receipt ids in receipts_db and
\* in points_db: a request stores in both or in neither.
C1_StoresAgree == DOMAIN receipts_db = DOMAIN points_db

\* Every id of points_db is in receipts_db and answers 200 with
\* calculate_points of the receipt stored under it; the id a successful
\* process_receipt returns is such an id, stored with the receipt sent.
C2_Stable ==
    /\ \A id \in DOMAIN points_db :
         /\ id \in DOMAIN receipts_db
         /\ ~calculate_points(variant, receipts_db[id]).raised
         /\ points_response(variant, id, points_db)
              = Response(200, <<>>, calculate_points(variant, receipts_db[id]).value, "")
    /\ Processed /\ response.status = 200 =>
         /\ response.id \in DOMAIN points_db
         /\ receipts_db[response.id] = request.receipt
    /\ Asked /\ request.id \in DOMAIN points_db =>
         response = Response(200, <<>>,
                             calculate_points(variant, receipts_db[request.id]).value, "")

\* A step keeps every entry of points_db, and its receipt, as it is
C2_Kept ==
    \A id \in DOMAIN points_db :
        /\ id \in DOMAIN points_db'
        /\ points_db'[id] = points_db[id]
        /\ receipts_db'[id] = receipts_db[id]

\* C2: an id returned by process_receipt(r) answers 200 with
\* calculate_points(r) in every later state, whatever requests come in
\* between, and no step changes or removes an entry of points_db.
C2_WriteOnce == []C2_Stable /\ [][C2_Kept]_vars

C2_Witness ==
    /\ Cardinality(DOMAIN points_db) = 2
    /\ Asked /\ response.status = 200

\* C3 as stated: an identifier string that process_receipt never returned
\* gets 404 with detail "No receipt found for that id".
C3_NeverReturned ==
    Asked /\ request.id \notin DOMAIN points_db =>
        response = Response(404, <<>>, <<0>>, "No receipt found for that id")

\* C3 amended: an identifier without whitespace whose value without the
\* surrounding double quotes was never returned gets 404, with the detail of
\* the running application; it never gets points or another error.
C3_NotFound ==
    /\ Asked
    /\ Unquoted(request.id) \notin DOMAIN points_db
    /\ \A i \in 1..Len(request.id) : request.id[i] \notin {" ", "\t", "\n"}
    => response = Response(404, <<>>, <<0>>,
                           IF variant = "FetchApp" THEN "No receipt found for that id"
                           ELSE "No receipt found for given id")

C3_Witness ==
    /\ Asked /\ response.status = 404
    /\ points_db # <<>>
    /\ request.id = <<"n", "o", "n", "e", "x", "i", "s", "t", "e", "n", "t", "-", "i", "d">>

\* C4: in every store state, an identifier wrapped in double quotes gets the
\* response of the identifier itself.
C4_Quoted ==
    /\ \A s \in IdStrings :
         points_response(variant, Quoted(s), points_db)
           = points_response(variant, s, points_db)
    /\ Asked => response = points_response(variant, Quoted(request.id), points_db)

C4_Witness ==
    /\ Asked /\ request.id = Quoted(<<"a", "1">>) /\ response.status = 200

\* C5: a receipt whose total differs from the exact sum of its item prices
\* is rejected with 422 and is not stored.
C5_MismatchRejected ==
    Processed /\ TotalDiffers(request.receipt) =>
        /\ response.status = 422
        /\ request.receipt \notin Range(receipts_db)

\* The field constraints C6 lists
IsHourMinute(s) ==
    /\ Len(s) = 5 /\ s[3] = ":"
    /\ \A i \in {1, 2, 4, 5} : s[i] \in DigitChars
    /\ NumOf(SubSeq(s, 1, 2)) \in 0..23 /\ NumOf(SubSeq(s, 4, 5)) \in 0..59

IsCalendarDate(s) ==
    /\ Len(s) = 10 /\ s[5] = "-" /\ s[8] = "-"
    /\ \A i \in {1, 2, 3, 4, 6, 7, 9, 10} : s[i] \in DigitChars
    /\ ValidDate(NumOf(SubSeq(s, 1, 4)), NumOf(SubSeq(s, 6, 7)), NumOf(SubSeq(s, 9, 10)))

IsRetailerName(s) ==
    s # <<>> /\ \A i \in 1..Len(s) :
        s[i] \in Letters \cup DigitChars \cup {"_", " ", "\t", "\n", "-", "&"}

EmptySignedOrNonNumeric(s) ==
    \/ s = <<>>
    \/ s[1] \in {"+", "-"}
    \/ \E i \in 1..Len(s) : s[i] \notin DigitChars \cup {"."}

BreaksFieldConstraint(r) ==
    \/ ~IsRetailerName(r.retailer)
    \/ ~IsCalendarDate(r.purchaseDate)
    \/ ~IsHourMinute(r.purchaseTime)
    \/ r.items = <<>>
    \/ \E i \in 1..Len(r.items) :
         \/ r.items[i].shortDescription = <<>>
         \/ EmptySignedOrNonNumeric(r.items[i].price)
    \/ EmptySignedOrNonNumeric(r.total)

\* C6: FetchApp rejects a receipt that breaks a field constraint with 422
\* and leaves the stores unchanged.
C6_FieldsRejected ==
    variant = "FetchApp" /\ Processed /\ BreaksFieldConstraint(request.receipt) =>
        /\ response.status = 422
        /\ request.receipt \notin Range(receipts_db)

\* C7: the example receipt is accepted and scores exactly 28.
C7_Example ==
    Processed /\ request.receipt = mock_valid_receipt =>
        /\ response.status = 200
        /\ response.id \in DOMAIN points_db
        /\ points_db[response.id] = <<2, 8>>

C7_Witness ==
    Processed /\ request.receipt = mock_valid_receipt /\ response.status = 200

MountainDew == Item(<<"M", "o", "u", "n", "t", "a", "i", "n", " ", "D", "e", "w", " ", "1", "2", "P", "K">>, <<"6", ".", "4", "9">>)

\* The last request stored a receipt of one item on the example's header
\* (retailer Target, an odd day, 13:01: 12 points without rule 5)
OneItemStored ==
    /\ Processed /\ response.status = 200
    /\ Len(request.receipt.items) = 1
    /\ request.receipt = OneItem(request.receipt.items[1].shortDescription,
                                 request.receipt.items[1].price,
                                 request.receipt.total)

\* C8 as stated: the item "Mountain Dew 12PK" at 6.49 has trimmed length 18
\* and contributes 2 points under rule 5.
C8_MountainDew ==
    OneItemStored /\ request.receipt.items[1] = MountainDew =>
        /\ trimmed_length(MountainDew) = 18
        /\ points_db[response.id] = BigOfNat(12 + 2)

\* C8 amended: an item priced 6.49 contributes ceil(1.298) = 2 when its
\* trimmed length is a multiple of 3 and 0 otherwise; "Mountain Dew 12PK"
\* has trimmed length 17 and contributes 0.
C8_Rounding ==
    /\ OneItemStored /\ request.receipt.items[1].price = <<"6", ".", "4", "9">> =>
         points_db[response.id] =
            BigOfNat(12 + (IF Len(strip_ws(request.receipt.items[1].shortDescription)) % 3 = 0
                           THEN 2 ELSE 0))
    /\ OneItemStored /\ request.receipt.items[1] = MountainDew =>
         /\ Len(MountainDew.shortDescription) = 17
         /\ points_db[response.id] = BigOfNat(12)

C8_Witness ==
    /\ OneItemStored
    /\ request.receipt.items[1] = Item(<<"M", "o", "u", "n", "t", "a", "i", "n", " ", "D", "e", "w", " ", "1", "2", " ", "P", "K">>, <<"6", ".", "4", "9">>)
    /\ points_db[response.id] = <<1, 4>>

\* The hour and minute a time string starts with, in minutes of the day
MinuteOfDay(s) ==
    LET p == SplitAt(s, ":")
        m == IF Len(p[2]) > 2 THEN SubSeq(p[2], 1, 2) ELSE p[2]
    IN  60 * NumOf(p[1]) + NumOf(m)

\* C9: for every accepted purchaseTime t, rule 7 adds 10 points exactly
\* when 14:00 <= t < 16:00.
C9_HalfOpen ==
    Processed /\ response.status # 422 =>
        Rule7(variant, request.receipt)
          = Contribution(IF MinuteOfDay(request.receipt.purchaseTime) \in 840..959
                         THEN 10 ELSE 0)

\* C10 as stated: in FetchApp every item of a stored receipt has a trimmed description
\* of length at least 1.
C10_TrimmedNonEmpty ==
    variant = "FetchApp" =>
        \A r \in Range(receipts_db) : \A i \in 1..Len(r.items) :
            Len(strip_ws(r.items[i].shortDescription)) >= 1

\* C10 amended: in FetchApp every item of a stored receipt has a non-empty
\* description of word characters, whitespace and hyphens, so a receipt with
\* an empty description is never scored or stored; a description of
\* whitespace only is accepted, and rule 5 adds ceil(price * 0.2) for its
\* trimmed length 0.
C10_NonEmpty ==
    variant = "FetchApp" =>
        /\ \A r \in Range(receipts_db) : \A i \in 1..Len(r.items) :
             /\ Len(r.items[i].shortDescription) >= 1
             /\ \A k \in 1..Len(r.items[i].shortDescription) :
                  r.items[i].shortDescription[k]
                      \in Letters \cup DigitChars \cup {"_", " ", "\t", "\n", "-"}
        /\ Processed /\ (\E i \in 1..Len(request.receipt.items) :
                            request.receipt.items[i].shortDescription = <<>>)
             => response.status = 422
        /\ Processed /\ request.receipt = OneItem(<<" ", " ", " ">>, <<"6", ".", "4", "9">>, <<"6", ".", "4", "9">>) =>
             /\ response.status = 200
             /\ points_db[response.id] = BigOfNat(12 + 2)

C10_Witness ==
    /\ variant = "FetchApp"
    /\ Processed /\ request.receipt = OneItem(<<" ", " ", " ">>, <<"6", ".", "4", "9">>, <<"6", ".", "4", "9">>)
    /\ response.status = 200
    /\ request.receipt \in Range(receipts_db)

=============================================================================
